---- MODULE Spec2Model ----
(***************************************************************************)
(* AQI Notify (src/src/index.ts): a Cloudflare Worker that fetches the     *)
(* Bangkok air-quality index from the AQICN API and relays alerts and      *)
(* daily summaries to Telegram.                                            *)
(*                                                                         *)
(* A JavaScript string is modelled as a sequence of chunks: a chunk is a   *)
(* single whitespace character (" ", "\n", "\t") or an atomic piece of     *)
(* text that neither starts nor ends with whitespace.  A JSON value is a   *)
(* tagged record; an optional result is a sequence of length 0 or 1.       *)
(***************************************************************************)
EXTENDS Integers, Sequences, FiniteSets, TLC

\* ------------------------------------------------------------------ bounds

\* getAQILevel is exercised on every index 0..MaxAqi (and on 100000).
MaxAqi == 320

\* sendTelegram is exercised on every message of at most MaxMsgLen chunks.
MaxMsgLen == 3

\* ----------------------------------------------------------- configuration

ALERT_THRESHOLD == 100

CITY == "bangkok"

CRON_HOURLY == "0 * * * *"

CRON_DAILY_SUMMARY == "0 1 * * *"

\* The tier table.  max: Infinity is modelled by finite = FALSE (max is then
\* unused); an emoji is written as the name of its colour or picture.
AQI_LEVELS ==
  << [max |-> 50, finite |-> TRUE, level |-> "Good", emoji |-> "green",
      advisory |-> "Air quality is satisfactory with little or no risk."],
     [max |-> 100, finite |-> TRUE, level |-> "Moderate", emoji |-> "yellow",
      advisory |-> "Air quality is acceptable. However, there may be moderate health concern for very sensitive people."],
     [max |-> 150, finite |-> TRUE, level |-> "Unhealthy for Sensitive Groups", emoji |-> "orange",
      advisory |-> "Members of sensitive groups may experience health effects. General public is less likely to be affected."],
     [max |-> 200, finite |-> TRUE, level |-> "Unhealthy", emoji |-> "red",
      advisory |-> "Everyone may begin to experience health effects. Sensitive groups may experience more serious effects. Consider wearing a mask outdoors."],
     [max |-> 300, finite |-> TRUE, level |-> "Very Unhealthy", emoji |-> "purple",
      advisory |-> "Health alert: everyone may experience more serious health effects. Avoid outdoor activities."],
     [max |-> 0, finite |-> FALSE, level |-> "Hazardous", emoji |-> "brown",
      advisory |-> "Health warning of emergency conditions. Everyone is more likely to be affected. Stay indoors."] >>

POLLUTANT_KEYS == << "pm25", "pm10", "o3", "no2", "so2", "co" >>

POLLUTANT_LABELS ==
  [pm25 |-> "PM2.5", pm10 |-> "PM10", o3 |-> "O3", no2 |-> "NO2", so2 |-> "SO2", co |-> "CO"]

\* --------------------------------------------------------- JavaScript values

Undefined == [t |-> "undefined"]

Null == [t |-> "null"]

Num(n) == [t |-> "number", n |-> n]

Str(s) == [t |-> "string", s |-> s]

Obj(fields) == [t |-> "object", o |-> fields]

\* v === undefined || v === null: a property read on v throws a TypeError.
Nullish(v) == v.t \in {"undefined", "null"}

\* ToBoolean(v).
Truthy(v) ==
  CASE v.t = "undefined" -> FALSE
    [] v.t = "null" -> FALSE
    [] v.t = "number" -> v.n # 0
    [] v.t = "string" -> v.s # ""
    [] v.t = "object" -> TRUE

\* v[key] for a v that is not nullish: a primitive has no own property.
Prop(v, key) ==
  IF v.t = "object" /\ key \in DOMAIN v.o THEN v.o[key] ELSE Undefined

\* v?.[key]
OptProp(v, key) == IF Nullish(v) THEN Undefined ELSE Prop(v, key)

\* v === 'ok' style comparison with a string literal.
IsString(v, s) == v.t = "string" /\ v.s = s

\* String(v), as a template literal renders it.
Show(v) ==
  CASE v.t = "undefined" -> "undefined"
    [] v.t = "null" -> "null"
    [] v.t = "number" -> ToString(v.n)
    [] v.t = "string" -> v.s
    [] v.t = "object" -> "[object Object]"

\* ------------------------------------------------------------------ errors

Error(message) == [name |-> "Error", message |-> message]

\* The TypeError of reading property key of undefined or null.
TypeErrorRead(v, key) ==
  [name |-> "TypeError",
   message |-> << "Cannot read properties of ", Show(v), " (reading '", key, "')" >>]

\* The rejection of the platform's fetch() when no HTTP response arrives.
NetworkError == [name |-> "TypeError", message |-> << "fetch failed" >>]

\* The rejection of response.json() on a body that is not JSON.
JsonSyntaxError == [name |-> "SyntaxError", message |-> << "Unexpected token in JSON" >>]

getErrorMessage(error) == error.message

Ok(v) == [ok |-> TRUE, value |-> << v >>, error |-> << >>]

Throw(e) == [ok |-> FALSE, value |-> << >>, error |-> << e >>]

\* ------------------------------------------------------ severity classifier

RECURSIVE FindLevel(_, _)
\* AQI_LEVELS.find((level) => aqi <= level.max), scanning from position i;
\* 0 when no tier matches.
FindLevel(aqi, i) ==
  IF i > Len(AQI_LEVELS) THEN 0
  ELSE IF (~AQI_LEVELS[i].finite) \/ aqi <= AQI_LEVELS[i].max THEN i
  ELSE FindLevel(aqi, i + 1)

RECURSIVE FindLevelStrict(_, _)
FindLevelStrict(aqi, i) ==
  IF i > Len(AQI_LEVELS) THEN 0
  ELSE IF (~AQI_LEVELS[i].finite) \/ aqi < AQI_LEVELS[i].max THEN i
  ELSE FindLevelStrict(aqi, i + 1)

\* Mutant: the tier bound compared with < instead of <=.
getAQILevel_Strict(aqi) ==
  LET i == FindLevelStrict(aqi, 1)
  IN  IF i # 0 THEN AQI_LEVELS[i] ELSE AQI_LEVELS[Len(AQI_LEVELS)]

getAQILevel(aqi) ==
  LET i == FindLevel(aqi, 1)
  IN  IF i # 0 THEN AQI_LEVELS[i] ELSE AQI_LEVELS[Len(AQI_LEVELS)]

\* ------------------------------------------------------------ data fetcher

\* response.ok
ResponseOk(r) == r.status >= 200 /\ r.status <= 299

\* Mutant: only the literal status 'error' is refused.
StatusOk_NotError(json) == ~IsString(Prop(json, "status"), "error")

\* json.status !== 'ok' is false
StatusOk(json) == IsString(Prop(json, "status"), "ok")

\* Mutant: the sign of the index is not checked.
InvalidAqi_TypeOnly(aqi) == aqi.t # "number"

\* typeof data.aqi !== 'number' || data.aqi < 0
InvalidAqi(aqi) == aqi.t # "number" \/ aqi.n < 0

\* fetchAQI from the point where the awaited GET settles with r.
fetchAQI(r) ==
  IF r.rejected THEN Throw(NetworkError)
  ELSE IF ~ResponseOk(r)
    THEN Throw(Error(<< "AQICN API error: ", ToString(r.status), " ", r.statusText >>))
  ELSE IF ~r.parses THEN Throw(JsonSyntaxError)
  ELSE LET json == r.json IN
  IF Nullish(json) THEN Throw(TypeErrorRead(json, "status"))
  ELSE IF ~StatusOk(json)
    THEN Throw(Error(<< "AQICN API returned error status: ", Show(Prop(json, "status")) >>))
  ELSE LET data == Prop(json, "data") IN
  IF ~Truthy(data) \/ ~Truthy(Prop(data, "city")) \/ ~Truthy(Prop(Prop(data, "city"), "name"))
    THEN Throw(Error(<< "Incomplete data structure in API response" >>))
  ELSE LET aqi == Prop(data, "aqi") IN
  IF InvalidAqi(aqi)
    THEN Throw(Error(<< "Invalid AQI value received: ", Show(aqi) >>))
  ELSE LET iaqi == Prop(data, "iaqi")
           time == Prop(data, "time") IN
  IF Nullish(iaqi) THEN Throw(TypeErrorRead(iaqi, "pm25"))
  ELSE IF Nullish(time) THEN Throw(TypeErrorRead(time, "s"))
  ELSE Ok([aqi |-> aqi.n,
           city |-> Prop(Prop(data, "city"), "name"),
           dominantPollutant |-> Prop(data, "dominentpol"),
           pollutants |-> [pm25 |-> OptProp(Prop(iaqi, "pm25"), "v"),
                           pm10 |-> OptProp(Prop(iaqi, "pm10"), "v"),
                           o3 |-> OptProp(Prop(iaqi, "o3"), "v"),
                           no2 |-> OptProp(Prop(iaqi, "no2"), "v"),
                           so2 |-> OptProp(Prop(iaqi, "so2"), "v"),
                           co |-> OptProp(Prop(iaqi, "co"), "v")],
           weather |-> [temperature |-> OptProp(Prop(iaqi, "t"), "v"),
                        humidity |-> OptProp(Prop(iaqi, "h"), "v"),
                        wind |-> OptProp(Prop(iaqi, "w"), "v")],
           time |-> Prop(time, "s")])

\* ------------------------------------------------------------ string helpers

\* The whitespace characters String.prototype.trim removes.
WHITESPACE == { " ", "\n", "\t" }

RECURSIVE TrimStart(_)
TrimStart(s) ==
  IF s # << >> /\ Head(s) \in WHITESPACE THEN TrimStart(Tail(s)) ELSE s

RECURSIVE TrimEnd(_)
TrimEnd(s) ==
  IF s # << >> /\ s[Len(s)] \in WHITESPACE THEN TrimEnd(SubSeq(s, 1, Len(s) - 1)) ELSE s

\* Mutant: the message is tested without trimming.
Trim_None(s) == s

\* message.trim()
Trim(s) == TrimEnd(TrimStart(s))

RECURSIVE Join(_, _)
\* parts.join(sep): parts is a sequence of strings.
Join(parts, sep) ==
  IF parts = << >> THEN << >>
  ELSE IF Len(parts) = 1 THEN parts[1]
  ELSE parts[1] \o sep \o Join(Tail(parts), sep)

DIGITS == << "0", "1", "2", "3", "4", "5", "6", "7", "8", "9" >>

DigitValue(c) == (CHOOSE i \in 1..10 : DIGITS[i] = c) - 1

RECURSIVE ParseDigits(_, _)
ParseDigits(s, acc) ==
  IF s = << >> THEN acc ELSE ParseDigits(Tail(s), acc * 10 + DigitValue(Head(s)))

\* parseInt(s, 10) on a string of decimal digits.
parseInt(s) == ParseDigits(s, 0)

\* ------------------------------------------------------- message formatter

RECURSIVE PollutantLines(_, _)
\* Object.entries(pollutants).filter(value !== undefined).map(bullet line),
\* in the insertion order of the pollutants literal, from key position i.
PollutantLines(pollutants, i) ==
  IF i > Len(POLLUTANT_KEYS) THEN << >>
  ELSE LET key == POLLUTANT_KEYS[i]
           rest == PollutantLines(pollutants, i + 1)
       IN  IF pollutants[key].t # "undefined"
           THEN << << "*", " ", POLLUTANT_LABELS[key], ":", " ", Show(pollutants[key]) >> >> \o rest
           ELSE rest

formatPollutants(pollutants) ==
  LET lines == PollutantLines(pollutants, 1)
  IN  IF Len(lines) > 0 THEN Join(lines, << "\n" >>) ELSE << "No pollutant data available" >>

formatWeather(weather) ==
  LET parts ==
        (IF weather.temperature.t # "undefined"
         THEN << << Show(weather.temperature), "degC" >> >> ELSE << >>)
        \o (IF weather.humidity.t # "undefined"
            THEN << << Show(weather.humidity), "%", " ", "humidity" >> >> ELSE << >>)
        \o (IF weather.wind.t # "undefined"
            THEN << << "Wind:", " ", Show(weather.wind), " ", "m/s" >> >> ELSE << >>)
  IN  IF Len(parts) > 0 THEN Join(parts, << " ", "|", " " >>) ELSE << >>

formatMessage(data, options) ==
  LET level == getAQILevel(data.aqi)
      weatherInfo == formatWeather(data.weather)
      parts ==
        << << options.titleEmoji, " ", "<b>", options.title, "</b>" >>,
           << >>,
           << "<b>", options.aqiLabel, ":", " ", ToString(data.aqi), "</b>", " ", "-", " ",
              level.level, " ", level.emoji >>,
           << >>,
           << "chart", " ", "<b>", "Pollutants:", "</b>" >>,
           formatPollutants(data.pollutants),
           << >>,
           << "hospital", " ", "<b>", "Health Advisory:", "</b>" >>,
           << level.advisory >> >>
        \o (IF weatherInfo # << >>
            THEN << << >>, << "thermometer", " " >> \o weatherInfo >> ELSE << >>)
        \o (IF Truthy(options.footer)
            THEN << << >>, << Show(options.footer) >> >> ELSE << >>)
        \o << << >>, << "clock", " ", Show(data.time) >> >>
  IN  Join(parts, << "\n" >>)

ALERT_TITLE == "Bangkok Air Quality Alert"

SUMMARY_TITLE == "Bangkok Daily Air Quality Summary"

SUMMARY_FOOTER == "Have a good day!"

formatAlertMessage(data) ==
  formatMessage(data, [title |-> ALERT_TITLE, titleEmoji |-> "warning",
                       aqiLabel |-> "AQI", footer |-> Undefined])

formatDailySummary(data) ==
  formatMessage(data, [title |-> SUMMARY_TITLE, titleEmoji |-> "clipboard",
                       aqiLabel |-> "Current AQI", footer |-> Str(SUMMARY_FOOTER)])

\* ---------------------------------------------------------------- notifier

TelegramUrl(e) == << "https://api.telegram.org/bot", e.TELEGRAM_BOT_TOKEN, "/sendMessage" >>

\* The JSON body of the POST; message_thread_id is present only when
\* env.TELEGRAM_THREAD_ID is a non-empty string.
TelegramBody(e, message) ==
  [chat_id |-> e.TELEGRAM_CHAT_ID,
   text |-> message,
   parse_mode |-> "HTML",
   message_thread_id |->
     IF e.TELEGRAM_THREAD_ID # << >> THEN << parseInt(e.TELEGRAM_THREAD_ID) >> ELSE << >>]

\* sendTelegram up to its await: the empty-message error, or the POST to issue.
sendTelegramRequest(e, message) ==
  IF Trim(message) = << >>
  THEN Throw(Error(<< "Cannot send empty message to Telegram" >>))
  ELSE Ok([method |-> "POST", url |-> TelegramUrl(e), body |-> << TelegramBody(e, message) >>])

\* sendTelegram from the point where the awaited POST settles with t.
sendTelegramSettle(t) ==
  IF t.rejected THEN Throw(NetworkError)
  ELSE IF ~ResponseOk(t)
    THEN Throw(Error(<< "Telegram API error: ", ToString(t.status), " - ", t.text >>))
  ELSE Ok("void")

\* The GET fetchAQI issues.
AqicnRequest(e) ==
  [method |-> "GET",
   url |-> << "https://api.waqi.info/feed/", CITY, "/?token=", e.AQICN_TOKEN >>,
   body |-> << >>]

\* ------------------------------------------------------------------- state

VARIABLES
  env,       \* the Worker's bindings (secrets), fixed for a deployment
  pc,        \* "idle", "awaitAqicn", "awaitTelegram" or "done"
  inv,       \* the invocation in progress: its entry point and argument
  outbound,  \* the outbound HTTP requests this invocation has issued, in order
  aqicn,     \* the settled GET of this invocation (at most one)
  telegram,  \* the settled POST of this invocation (at most one)
  data,      \* the AQIData fetchAQI returned to this invocation (at most one)
  outcome,   \* how the invocation ended: a Response, a resolved or a rejected promise
  console    \* the console.log / console.error lines of this invocation

vars == << env, pc, inv, outbound, aqicn, telegram, data, outcome, console >>

\* ------------------------------------------------------------------ inputs

Envs ==
  { [AQICN_TOKEN |-> "aqicn-token", TELEGRAM_BOT_TOKEN |-> "bot-token",
     TELEGRAM_CHAT_ID |-> "chat-id", TELEGRAM_THREAD_ID |-> th] :
    th \in { << >>, << "4", "2" >> } }

PATHS == { "/test-alert", "/test-summary", "/check", "/", "/other" }

CRONS == { CRON_HOURLY, CRON_DAILY_SUMMARY, "*/5 * * * *" }

\* Index values around every tier boundary and the alert threshold.
AqiNumbers == { -5, -1, 0, 50, 51, 100, 101, 150, 151, 200, 201, 300, 301, 100000 }

AqiFields == { Undefined, Null, Str("-") } \cup { Num(n) : n \in AqiNumbers }

CityFields ==
  { Undefined, Obj([name |-> Undefined]), Obj([name |-> Str("")]),
    Obj([name |-> Str("Bangkok")]) }

IaqiFields ==
  { Undefined, Null,
    Obj([pm25 |-> Undefined, pm10 |-> Undefined, o3 |-> Undefined, no2 |-> Undefined,
         so2 |-> Undefined, co |-> Undefined, t |-> Undefined, h |-> Undefined,
         w |-> Undefined]),
    Obj([pm25 |-> Obj([v |-> Num(88)]), pm10 |-> Undefined, o3 |-> Obj([v |-> Num(12)]),
         no2 |-> Undefined, so2 |-> Undefined, co |-> Undefined,
         t |-> Obj([v |-> Num(31)]), h |-> Undefined, w |-> Obj([v |-> Num(2)])]) }

TimeFields == { Undefined, Obj([s |-> Str("2024-01-01 08:00:00")]) }

DataFields ==
  { Undefined, Null } \cup
  { Obj([aqi |-> a, city |-> c, dominentpol |-> Str("pm25"), iaqi |-> i, time |-> tm]) :
    a \in AqiFields, c \in CityFields, i \in IaqiFields, tm \in TimeFields }

StatusFields == { Undefined, Str("ok"), Str("error") }

\* The JSON documents the provider may answer with.
JsonBodies ==
  { Null, Num(5) } \cup { Obj([status |-> st, data |-> d]) : st \in StatusFields, d \in DataFields }

\* How the GET may settle: rejected, a non-2xx response (its body is never
\* read), a body that is not JSON, or a JSON document.
AqicnResponses ==
  { [rejected |-> TRUE, status |-> 0, statusText |-> "", parses |-> FALSE, json |-> Undefined] }
  \cup { [rejected |-> FALSE, status |-> st, statusText |-> "Error", parses |-> FALSE,
          json |-> Undefined] : st \in { 404, 500 } }
  \cup { [rejected |-> FALSE, status |-> 200, statusText |-> "OK", parses |-> FALSE,
          json |-> Undefined] }
  \cup { [rejected |-> FALSE, status |-> 200, statusText |-> "OK", parses |-> TRUE, json |-> j] :
         j \in JsonBodies }

\* How the POST may settle.
TelegramResponses ==
  { [rejected |-> TRUE, status |-> 0, text |-> ""],
    [rejected |-> FALSE, status |-> 200, text |-> "{ok:true}"],
    [rejected |-> FALSE, status |-> 400, text |-> "Bad Request"],
    [rejected |-> FALSE, status |-> 429, text |-> "Too Many Requests"] }

\* ---------------------------------------------------------------- outcomes

Pending == [kind |-> "pending", status |-> 0, body |-> << >>, error |-> << >>, value |-> << >>]

\* new Response(body, { status })
Response(status, body) ==
  [kind |-> "response", status |-> status, body |-> body, error |-> << >>, value |-> << >>]

\* The handler's promise resolved without a value.
Resolved == [kind |-> "resolved", status |-> 0, body |-> << >>, error |-> << >>, value |-> << >>]

\* The call returned v.
Returned(v) == [kind |-> "resolved", status |-> 0, body |-> << >>, error |-> << >>, value |-> << v >>]

\* The handler's promise rejected with e: the error escaped the handler.
Rejected(e) == [kind |-> "rejected", status |-> 0, body |-> << >>, error |-> << e >>, value |-> << >>]

USAGE == << "AQI Notify - Bangkok Air Quality Monitor", "\n", "Endpoints: /check /test-alert /test-summary",
            "\n", "Hourly check: Sends alert if AQI > ", ToString(ALERT_THRESHOLD) >>

RECURSIVE JsonEntries(_, _, _)
\* JSON.stringify of the defined entries of obj among keys, from position i.
JsonEntries(obj, keys, i) ==
  IF i > Len(keys) THEN << >>
  ELSE (IF obj[keys[i]].t # "undefined" THEN << keys[i], ":", Show(obj[keys[i]]), "," >> ELSE << >>)
       \o JsonEntries(obj, keys, i + 1)

\* Response.json(data): undefined members are left out.
ResponseJson(d) ==
  Response(200,
    << "{", "aqi", ":", ToString(d.aqi), ",", "city", ":", Show(d.city), "," >>
    \o (IF d.dominantPollutant.t # "undefined"
        THEN << "dominantPollutant", ":", Show(d.dominantPollutant), "," >> ELSE << >>)
    \o << "pollutants", ":", "{" >> \o JsonEntries(d.pollutants, POLLUTANT_KEYS, 1) \o << "}", "," >>
    \o << "weather", ":", "{" >>
    \o JsonEntries(d.weather, << "temperature", "humidity", "wind" >>, 1) \o << "}", "," >>
    \o (IF d.time.t # "undefined" THEN << "time", ":", Show(d.time) >> ELSE << >>)
    \o << "}" >>)

\* -------------------------------------------------------------- dispatcher

\* Mutant: the root path is routed to an operation too.
CORE_PATHS_WithRoot == { "/test-alert", "/test-summary", "/check", "/" }

\* The fetch handler's routes that run an operation under handleWithError.
CORE_PATHS == { "/test-alert", "/test-summary", "/check" }

isDailySummary(cron) == cron = CRON_DAILY_SUMMARY

\* Mutant: the threshold compared with >= instead of >.
ExceedsThreshold_AtLeast(aqi) == aqi >= ALERT_THRESHOLD

\* data.aqi > CONFIG.ALERT_THRESHOLD
ExceedsThreshold(aqi) == aqi > ALERT_THRESHOLD

\* The message the fetch handler passes to sendTelegram on path, if any.
FetchMessage(path, d) ==
  IF path = "/test-alert" THEN << formatAlertMessage(d) >>
  ELSE IF path = "/test-summary" THEN << formatDailySummary(d) >>
  ELSE << >>

\* Mutant: the threshold is tested before the daily-summary branch.
ScheduledMessage_ThresholdFirst(cron, d) ==
  IF ~ExceedsThreshold(d.aqi) THEN << >>
  ELSE IF isDailySummary(cron) THEN << formatDailySummary(d) >>
  ELSE << formatAlertMessage(d) >>

\* The message the scheduled handler passes to sendTelegram, if any.
ScheduledMessage(cron, d) ==
  IF isDailySummary(cron) THEN << formatDailySummary(d) >>
  ELSE IF ExceedsThreshold(d.aqi) THEN << formatAlertMessage(d) >>
  ELSE << >>

MessageToSend(i, d) ==
  IF i.entry = "fetch" THEN FetchMessage(i.arg, d) ELSE ScheduledMessage(i.arg, d)

\* The Response an operation of the fetch handler returns when no step threw.
SuccessResponse(path, d) ==
  IF path = "/test-alert" THEN Response(200, << "Alert sent! AQI: ", ToString(d.aqi) >>)
  ELSE IF path = "/test-summary" THEN Response(200, << "Summary sent! AQI: ", ToString(d.aqi) >>)
  ELSE ResponseJson(d)

\* Mutant: the error is rethrown instead of being turned into a Response.
handleWithError_Rethrow(result) ==
  IF result.ok THEN result.value[1] ELSE Rejected(result.error[1])

\* try { return await operation() } catch (error) { return new Response(...) }
handleWithError(result) ==
  IF result.ok THEN result.value[1]
  ELSE Response(500, << "Error: " >> \o getErrorMessage(result.error[1]))

\* Mutant: the catch block rethrows.
scheduledCatch_Rethrow(result) ==
  IF result.ok THEN Resolved ELSE Rejected(result.error[1])

\* The scheduled handler's try/catch: whatever the body did, the handler resolves.
scheduledCatch(result) == Resolved

\* console.log after the fetch in the scheduled handler.
CheckLog(d) ==
  [level |-> "log", text |-> << "AQI check at ", "<now>", ": AQI = ", ToString(d.aqi) >>]

\* The scheduled handler's last console line, if any.
ScheduledEndLog(cron, d, result) ==
  IF ~result.ok
  THEN << [level |-> "error",
           text |-> << "AQI check failed: " >> \o getErrorMessage(result.error[1])] >>
  ELSE IF isDailySummary(cron) THEN << [level |-> "log", text |-> << "Daily summary sent" >>] >>
  ELSE IF d # << >> /\ ExceedsThreshold(d[1].aqi)
  THEN << [level |-> "log",
           text |-> << "Alert sent: AQI ", ToString(d[1].aqi), " exceeds threshold ",
                       ToString(ALERT_THRESHOLD) >>] >>
  ELSE << >>

\* How invocation i ends when its body ended with result (d: the data fetched).
EndOutcome(i, d, result) ==
  IF i.entry = "fetch"
  THEN handleWithError(IF result.ok THEN Ok(SuccessResponse(i.arg, d[1])) ELSE result)
  ELSE IF i.entry = "scheduled" THEN scheduledCatch(result)
  ELSE IF result.ok THEN Resolved ELSE Rejected(result.error[1])

EndLog(i, d, result) ==
  IF i.entry = "scheduled" THEN ScheduledEndLog(i.arg, d, result) ELSE << >>

\* ----------------------------------------------------------------- actions

Init ==
  /\ env \in Envs
  /\ pc = "idle"
  /\ inv = [entry |-> "none", arg |-> ""]
  /\ outbound = << >>
  /\ aqicn = << >>
  /\ telegram = << >>
  /\ data = << >>
  /\ outcome = Pending
  /\ console = << >>

\* export default { fetch(req, env) }: a request for path arrives.
FetchHandler(path) ==
  /\ pc \in { "idle", "done" }
  /\ inv' = [entry |-> "fetch", arg |-> path]
  /\ aqicn' = << >>
  /\ telegram' = << >>
  /\ data' = << >>
  /\ console' = << >>
  /\ IF path \in CORE_PATHS
     THEN /\ outbound' = << AqicnRequest(env) >>
          /\ pc' = "awaitAqicn"
          /\ outcome' = Pending
     ELSE /\ outbound' = << >>
          /\ pc' = "done"
          /\ outcome' = Response(200, USAGE)
  /\ UNCHANGED env

\* export default { scheduled(controller, env, ctx) }: the trigger cron fires.
ScheduledHandler(cron) ==
  /\ pc \in { "idle", "done" }
  /\ inv' = [entry |-> "scheduled", arg |-> cron]
  /\ aqicn' = << >>
  /\ telegram' = << >>
  /\ data' = << >>
  /\ console' = << >>
  /\ outbound' = << AqicnRequest(env) >>
  /\ pc' = "awaitAqicn"
  /\ outcome' = Pending
  /\ UNCHANGED env

\* The awaited GET settles with r: the rest of fetchAQI runs, then the handler
\* up to its next await (the POST of sendTelegram) or to its end.
AqicnResponds(r) ==
  /\ pc = "awaitAqicn"
  /\ aqicn' = << r >>
  /\ LET res == fetchAQI(r)
         msg == IF res.ok THEN MessageToSend(inv, res.value[1]) ELSE << >>
         req == IF msg # << >> THEN sendTelegramRequest(env, msg[1]) ELSE Ok("void")
         result == IF ~res.ok THEN res ELSE req
         fetched == IF res.ok /\ inv.entry = "scheduled" THEN << CheckLog(res.value[1]) >> ELSE << >>
     IN  /\ data' = res.value
         /\ IF res.ok /\ msg # << >> /\ req.ok
            THEN /\ outbound' = Append(outbound, req.value[1])
                 /\ pc' = "awaitTelegram"
                 /\ outcome' = Pending
                 /\ console' = console \o fetched
            ELSE /\ outbound' = outbound
                 /\ pc' = "done"
                 /\ outcome' = EndOutcome(inv, res.value, result)
                 /\ console' = console \o fetched \o EndLog(inv, res.value, result)
  /\ UNCHANGED << env, inv, telegram >>

\* The awaited POST settles with t: the rest of sendTelegram runs, then the
\* handler to its end.
TelegramResponds(t) ==
  /\ pc = "awaitTelegram"
  /\ telegram' = << t >>
  /\ pc' = "done"
  /\ outcome' = EndOutcome(inv, data, sendTelegramSettle(t))
  /\ console' = console \o EndLog(inv, data, sendTelegramSettle(t))
  /\ UNCHANGED << env, inv, outbound, aqicn, data >>

Next ==
  \/ \E path \in PATHS : FetchHandler(path)
  \/ \E cron \in CRONS : ScheduledHandler(cron)
  \/ \E r \in AqicnResponses : AqicnResponds(r)
  \/ \E t \in TelegramResponses : TelegramResponds(t)

Spec == Init /\ [][Next]_vars

\* ------------------------------------------- direct calls of the functions

\* The chunks the messages handed to sendTelegram are built from.
MsgChunks == { " ", "\n", "\t", "hello" }

RECURSIVE SeqsUpTo(_, _)
\* Every sequence over S of length at most n.
SeqsUpTo(S, n) ==
  IF n = 0 THEN { << >> }
  ELSE LET shorter == SeqsUpTo(S, n - 1)
       IN  shorter \cup { Append(q, c) : q \in shorter, c \in S }

Messages == SeqsUpTo(MsgChunks, MaxMsgLen)

\* sendTelegram(env, message) called on its own, up to its await.
CallSendTelegram(message) ==
  /\ pc \in { "idle", "done" }
  /\ inv' = [entry |-> "sendTelegram", arg |-> message]
  /\ aqicn' = << >>
  /\ telegram' = << >>
  /\ data' = << >>
  /\ console' = << >>
  /\ LET req == sendTelegramRequest(env, message)
     IN  IF req.ok
         THEN /\ outbound' = << req.value[1] >>
              /\ pc' = "awaitTelegram"
              /\ outcome' = Pending
         ELSE /\ outbound' = << >>
              /\ pc' = "done"
              /\ outcome' = Rejected(req.error[1])
  /\ UNCHANGED env

NextSend ==
  \/ \E message \in Messages : CallSendTelegram(message)
  \/ \E t \in TelegramResponses : TelegramResponds(t)

SpecSend == Init /\ [][NextSend]_vars

AqiDomain == 0..MaxAqi \cup { 100000 }

\* getAQILevel(aqi) called on its own.
CallGetAQILevel(aqi) ==
  /\ pc \in { "idle", "done" }
  /\ inv' = [entry |-> "getAQILevel", arg |-> aqi]
  /\ pc' = "done"
  /\ outcome' = Returned(getAQILevel(aqi))
  /\ UNCHANGED << env, outbound, aqicn, telegram, data, console >>

NextLevel == \E aqi \in AqiDomain : CallGetAQILevel(aqi)

SpecLevel == Init /\ [][NextLevel]_vars

\* ------------------------------------------------- vocabulary of the claims

Gets == SelectSeq(outbound, LAMBDA q : q.method = "GET")

Posts == SelectSeq(outbound, LAMBDA q : q.method = "POST")

\* The text of the i-th message posted to the messaging provider.
PostedText(i) == Posts[i].body[1].text

HasChunk(text, c) == \E i \in 1..Len(text) : text[i] = c

\* Alert title in the title line, and no footer.
AlertVariant(text) ==
  /\ Len(text) >= 5
  /\ text[4] = "Bangkok Air Quality Alert"
  /\ ~HasChunk(text, "Have a good day!")

\* Summary title in the title line, and the closing footer before the time line.
SummaryVariant(text) ==
  /\ Len(text) >= 9
  /\ text[4] = "Bangkok Daily Air Quality Summary"
  /\ text[Len(text) - 5] = "Have a good day!"
  /\ text[Len(text) - 2] = "clock"

Success(status) == status \in 200..299

\* The message of the error the invocation ended with, as it is observable:
\* the 500 body after "Error: ", the console.error line after its prefix, or
\* the rejection of a direct call.
ObservedError ==
  IF inv.entry = "fetch"
  THEN IF outcome.kind = "response" /\ outcome.status = 500 /\ outcome.body # << >>
            /\ Head(outcome.body) = "Error: "
       THEN Tail(outcome.body) ELSE << >>
  ELSE IF inv.entry = "scheduled"
  THEN IF console # << >> /\ console[Len(console)].level = "error"
       THEN Tail(console[Len(console)].text) ELSE << >>
  ELSE IF outcome.kind = "rejected" THEN outcome.error[1].message
  ELSE << >>

\* The provider answered 2xx with a JSON document.
RawJson(r) == ~r.rejected /\ Success(r.status) /\ r.parses

\* ... that is not null and whose status member is not the string 'ok'.
RawStatusNotOk(r) ==
  /\ RawJson(r)
  /\ r.json.t # "null"
  /\ ~(r.json.t = "object" /\ r.json.o.status.t = "string" /\ r.json.o.status.s = "ok")

\* ... with status 'ok', data, data.city and a non-empty data.city.name.
RawNamed(r) ==
  /\ RawJson(r)
  /\ r.json.t = "object"
  /\ r.json.o.status.t = "string" /\ r.json.o.status.s = "ok"
  /\ r.json.o.data.t = "object"
  /\ r.json.o.data.o.city.t = "object"
  /\ r.json.o.data.o.city.o.name.t = "string"
  /\ r.json.o.data.o.city.o.name.s # ""

RawAqi(r) == r.json.o.data.o.aqi

RawIndexValid(r) == RawNamed(r) /\ RawAqi(r).t = "number" /\ RawAqi(r).n >= 0

RawIndexInvalid(r) == RawNamed(r) /\ ~(RawAqi(r).t = "number" /\ RawAqi(r).n >= 0)

\* A valid index, and the pollutant map and the time object both present.
RawWellFormed(r) ==
  /\ RawIndexValid(r)
  /\ r.json.o.data.o.iaqi.t = "object"
  /\ r.json.o.data.o.time.t = "object"

\* A valid index, but the pollutant map or the time object missing.
RawMalformed(r) ==
  /\ RawIndexValid(r)
  /\ (r.json.o.data.o.iaqi.t # "object" \/ r.json.o.data.o.time.t # "object")

Hourly == inv.entry = "scheduled" /\ inv.arg # "0 1 * * *"

Daily == inv.entry = "scheduled" /\ inv.arg = "0 1 * * *"

\* ------------------------------------------------------------------ claims

\* C1: in an hourly scheduled invocation, once the fetch has succeeded, no
\* POST is made when the index is <= 100, and exactly one message, the alert
\* variant (alert title, no footer), is sent when the index is > 100.
C1_HourlyAlertIffAbove100 ==
  (Hourly /\ data # << >>) =>
    IF data[1].aqi > 100
    THEN Len(Posts) = 1 /\ AlertVariant(PostedText(1))
    ELSE Posts = << >>

C1_Witness ==
  /\ Hourly /\ inv.arg = "0 * * * *" /\ pc = "done"
  /\ data # << >> /\ data[1].aqi = 101
  /\ Len(Posts) = 1 /\ AlertVariant(PostedText(1))

\* C2: in a daily-summary scheduled invocation, once the fetch has succeeded,
\* exactly one message is sent, whatever the index, and it is the summary
\* variant (summary title, closing footer), never the alert variant; no
\* "Alert sent" line is logged.
C2_DailyAlwaysSummary ==
  (Daily /\ data # << >>) =>
    /\ Len(Posts) = 1
    /\ SummaryVariant(PostedText(1))
    /\ ~AlertVariant(PostedText(1))
    /\ \A i \in 1..Len(console) : Head(console[i].text) # "Alert sent: AQI "

C2_Witness ==
  /\ Daily /\ pc = "done" /\ data # << >> /\ data[1].aqi = 50
  /\ Len(Posts) = 1 /\ SummaryVariant(PostedText(1))
  /\ telegram # << >> /\ Success(telegram[1].status)

\* C3: a scheduled invocation never ends with an error escaping the handler:
\* when the fetch fails it ends at once, resolved, without any POST; when the
\* delivery fails it ends resolved; and it issues at most one GET and one POST.
C3_ScheduledSwallowsFailures ==
  inv.entry = "scheduled" =>
    /\ outcome.kind \in { "pending", "resolved" }
    /\ (pc = "done" <=> outcome.kind = "resolved")
    /\ Len(Gets) <= 1 /\ Len(Posts) <= 1
    /\ (aqicn # << >> /\ ~RawWellFormed(aqicn[1])) =>
         (pc = "done" /\ data = << >> /\ Posts = << >> /\ ObservedError # << >>)
    /\ telegram # << >> => pc = "done"
    /\ (telegram # << >> /\ (telegram[1].rejected \/ ~Success(telegram[1].status))) =>
         ObservedError # << >>

C3_Witness ==
  /\ inv.entry = "scheduled" /\ pc = "done" /\ outcome.kind = "resolved"
  /\ telegram # << >> /\ ~telegram[1].rejected /\ telegram[1].status = 400
  /\ Len(Posts) = 1

\* Every step the operation of a core path runs has succeeded.
StepsSucceeded ==
  /\ data # << >>
  /\ inv.arg = "/check" \/
       (telegram # << >> /\ ~telegram[1].rejected /\ Success(telegram[1].status))

\* The message of the first step that failed.
FirstFailure ==
  IF data = << >> THEN fetchAQI(aqicn[1]).error[1].message
  ELSE sendTelegramSettle(telegram[1]).error[1].message

\* C4: on /check, /test-alert and /test-summary the fetch handler never
\* rejects; it answers 200 exactly when every step it ran succeeded, and 500
\* with body "Error: " + the first failing step's message otherwise; the two
\* test paths post their variant whatever the index, /check posts nothing.
C4_HttpPathsAnswer200Or500 ==
  (inv.entry = "fetch" /\ inv.arg \in { "/check", "/test-alert", "/test-summary" }) =>
    /\ outcome.kind \in { "pending", "response" }
    /\ pc = "done" =>
         /\ outcome.kind = "response"
         /\ outcome.status \in { 200, 500 }
         /\ outcome.status = 200 <=> StepsSucceeded
         /\ outcome.status = 500 => outcome.body = << "Error: " >> \o FirstFailure
    /\ inv.arg = "/check" => Posts = << >>
    /\ (inv.arg = "/test-alert" /\ data # << >>) =>
         (Len(Posts) = 1 /\ AlertVariant(PostedText(1)))
    /\ (inv.arg = "/test-summary" /\ data # << >>) =>
         (Len(Posts) = 1 /\ SummaryVariant(PostedText(1)))

C4_Witness ==
  /\ inv.entry = "fetch" /\ inv.arg = "/test-alert" /\ pc = "done"
  /\ data # << >> /\ data[1].aqi = 50
  /\ telegram # << >> /\ telegram[1].status = 429
  /\ outcome.status = 500
  /\ outcome.body = << "Error: ", "Telegram API error: ", "429", " - ", "Too Many Requests" >>

\* The tier label the table of the claim gives index v.
ExpectedLabel(v) ==
  IF v <= 50 THEN "Good"
  ELSE IF v <= 100 THEN "Moderate"
  ELSE IF v <= 150 THEN "Unhealthy for Sensitive Groups"
  ELSE IF v <= 200 THEN "Unhealthy"
  ELSE IF v <= 300 THEN "Very Unhealthy"
  ELSE "Hazardous"

\* The i-th tier's upper bound is >= v.
BoundCovers(i, v) == (~AQI_LEVELS[i].finite) \/ AQI_LEVELS[i].max >= v

\* C5: for every index v >= 0, getAQILevel(v) is the first tier of the table
\* whose upper bound is >= v, and its label is the one of the ranges 0..50,
\* 51..100, 101..150, 151..200, 201..300, above 300.
C5_FirstMatchingTier ==
  inv.entry = "getAQILevel" =>
    LET v == inv.arg
        lvl == outcome.value[1]
    IN  /\ lvl.level = ExpectedLabel(v)
        /\ \E i \in 1..Len(AQI_LEVELS) :
             /\ AQI_LEVELS[i] = lvl
             /\ BoundCovers(i, v)
             /\ \A j \in 1..(i - 1) : ~BoundCovers(j, v)

C5_Witness ==
  /\ inv.entry = "getAQILevel" /\ inv.arg = 300
  /\ outcome.value[1].level = "Very Unhealthy"

\* C6: a reading returned by fetchAQI has index >= 0; a payload that passes
\* the earlier checks with an index that is negative or not a number ends the
\* invocation with the invalid-index error and nothing is sent or returned as
\* data; a well-formed payload with index 0 yields a reading with index 0.
C6_NoNegativeIndex ==
  inv.entry \in { "fetch", "scheduled" } =>
    /\ data # << >> => data[1].aqi >= 0
    /\ (aqicn # << >> /\ RawIndexInvalid(aqicn[1])) =>
         /\ pc = "done" /\ data = << >> /\ Posts = << >>
         /\ ObservedError = << "Invalid AQI value received: ", Show(RawAqi(aqicn[1])) >>
    /\ (aqicn # << >> /\ RawWellFormed(aqicn[1]) /\ RawAqi(aqicn[1]).n = 0) =>
         (data # << >> /\ data[1].aqi = 0)

C6_Witness ==
  /\ inv.entry = "fetch" /\ inv.arg = "/test-alert" /\ pc = "done"
  /\ aqicn # << >> /\ RawIndexInvalid(aqicn[1])
  /\ RawAqi(aqicn[1]).t = "number" /\ RawAqi(aqicn[1]).n = -1
  /\ outcome.body = << "Error: ", "Invalid AQI value received: ", "-1" >>

\* C7: a 2xx JSON answer whose status member is not 'ok' ends the invocation
\* with the provider-status error, whatever the rest of the payload holds:
\* no reading, no schema error, no invalid-index error, nothing sent.
C7_StatusCheckedFirst ==
  (inv.entry \in { "fetch", "scheduled" } /\ aqicn # << >> /\ RawStatusNotOk(aqicn[1])) =>
    /\ pc = "done" /\ data = << >> /\ Posts = << >>
    /\ ObservedError =
         << "AQICN API returned error status: ", Show(Prop(aqicn[1].json, "status")) >>

C7_Witness ==
  /\ inv.entry = "fetch" /\ inv.arg = "/check" /\ pc = "done"
  /\ aqicn # << >> /\ RawStatusNotOk(aqicn[1])
  /\ aqicn[1].json.t = "object" /\ aqicn[1].json.o.data.t = "object"
  /\ aqicn[1].json.o.data.o.aqi.t = "number" /\ aqicn[1].json.o.data.o.aqi.n = -1
  /\ outcome.body = << "Error: ", "AQICN API returned error status: ", "error" >>

\* The first chunks of the four documented error kinds of fetchAQI; a
\* rejected fetch and an unparsable body count as the fetch/HTTP failure.
DocumentedFetchErrors ==
  { "fetch failed", "Unexpected token in JSON", "AQICN API error: ",
    "AQICN API returned error status: ", "Incomplete data structure in API response",
    "Invalid AQI value received: " }

\* C8: once the GET has settled, fetchAQI has either returned a reading or
\* failed with one of the four documented error kinds; a payload with status
\* 'ok', a location name and a valid index whose pollutant map or time object
\* is missing fails with the schema error.
C8_OnlyDocumentedErrors ==
  (inv.entry \in { "fetch", "scheduled" } /\ aqicn # << >>) =>
    /\ data = << >> =>
         (ObservedError # << >> /\ Head(ObservedError) \in DocumentedFetchErrors)
    /\ RawMalformed(aqicn[1]) =>
         ObservedError = << "Incomplete data structure in API response" >>

\* Every chunk of the message is a whitespace character.
Blank(message) == \A i \in 1..Len(message) : message[i] \in { " ", "\n", "\t" }

\* C9: sendTelegram on an empty or whitespace-only message rejects with the
\* empty-message error and issues no request; on any other message it issues
\* exactly one POST carrying the message, and rejects with the delivery error
\* (status code and response body) exactly when the POST's status is not 2xx.
C9_SendTelegramContract ==
  inv.entry = "sendTelegram" =>
    IF Blank(inv.arg)
    THEN /\ outbound = << >>
         /\ pc = "done"
         /\ outcome.kind = "rejected"
         /\ ObservedError = << "Cannot send empty message to Telegram" >>
    ELSE /\ Len(outbound) = 1
         /\ outbound[1].method = "POST"
         /\ outbound[1].body[1].text = inv.arg
         /\ pc = "done" =>
              /\ telegram # << >>
              /\ (~telegram[1].rejected /\ ~Success(telegram[1].status)) <=>
                   (ObservedError # << >> /\ Head(ObservedError) = "Telegram API error: ")
              /\ (~telegram[1].rejected /\ ~Success(telegram[1].status)) =>
                   ObservedError = << "Telegram API error: ", ToString(telegram[1].status),
                                      " - ", telegram[1].text >>
              /\ (~telegram[1].rejected /\ Success(telegram[1].status)) =>
                   outcome.kind = "resolved"

C9_Witness ==
  /\ inv.entry = "sendTelegram" /\ inv.arg = << " ", "\n" >>
  /\ pc = "done" /\ outbound = << >> /\ outcome.kind = "rejected"

\* C10: an invocation issues at most one GET and then at most one POST; the
\* POST is issued only once the GET has settled and fetchAQI has returned a
\* validated reading; an unrecognized path issues no request and answers
\* 200 with the usage text.
C10_SequentialSingleAttempt ==
  inv.entry \in { "fetch", "scheduled" } =>
    /\ Len(Gets) <= 1 /\ Len(Posts) <= 1
    /\ outbound # << >> => outbound[1].method = "GET"
    /\ Posts # << >> =>
         /\ Len(outbound) = 2
         /\ aqicn # << >> /\ RawWellFormed(aqicn[1])
         /\ data # << >> /\ data[1].aqi >= 0
    /\ (inv.entry = "fetch" /\ inv.arg \notin { "/check", "/test-alert", "/test-summary" }) =>
         /\ outbound = << >>
         /\ pc = "done"
         /\ outcome.kind = "response" /\ outcome.status = 200
         /\ Head(outcome.body) = "AQI Notify - Bangkok Air Quality Monitor"

C10_Witness ==
  /\ inv.entry = "fetch" /\ inv.arg = "/test-summary" /\ pc = "done"
  /\ Len(outbound) = 2 /\ outbound[1].method = "GET" /\ outbound[2].method = "POST"
  /\ telegram # << >> /\ telegram[1].rejected

====
